---- MODULE Spec2Model ----
(***************************************************************************)
(* The EV charging-station dashboard: index.html loads visualizations.js,  *)
(* whose load handler `initialize` fetches the CSV and creates the charts. *)
(*                                                                         *)
(* visualizations.js holds two generations of most functions, one after    *)
(* the other in the same script.  A classic script binds a function name   *)
(* to its LAST declaration before any statement runs, so the page executes *)
(* the declarations listed in `Bound`.  The page is modelled by Spec.      *)
(* The functions the page never reaches (the earlier generation and the    *)
(* older script kept beside it) are applied to loaded tables by SpecFn.    *)
(*                                                                         *)
(* Numbers are held in hundredths (0.15 USD/kWh is 15, 10 users/day is     *)
(* 1000) so that every comparison of the source is an integer comparison.  *)
(***************************************************************************)
EXTENDS Integers, Sequences, FiniteSets, TLC

VARIABLES
    csv,        \* the CSV resource served to fetch: [header, rows]
    pc,         \* where initialize stands
    task,       \* progress of each async chart function
    failed,     \* what went wrong so far (fetches, chart-library calls)
    loadResult, \* outcome of initialize's loadData call
    data,       \* the table initialize holds (<<>> before it is loaded)
    trendTable, \* the table loadTrendChart holds (<<>> before)
    container,  \* children of each chart container, in document order
    sel,        \* current value of every selector of the page
    pending,    \* vegaEmbed promises not settled yet, per chart
    events,     \* number of user events so far
    fetches,    \* the fetch calls issued so far, in order: [by, url]
    visibilityState, \* trend chart: whether each charger type is shown
    selected,   \* trend chart: the points carrying class 'selected-dot'
    hiddenDots, \* trend chart: the points drawn with opacity 0
    highlight,  \* trend chart: the lines drawn 3.5 wide, the points of radius 8
    tooltip,    \* trend chart: the point the tooltip shows (0: hidden)
    fn,         \* SpecFn: the function last applied and its arguments
    out         \* SpecFn: what that function displayed / returned

trendUI == <<visibilityState, selected, hiddenDots, highlight, tooltip>>

vars == <<csv, pc, task, failed, loadResult, data, trendTable, container,
          sel, pending, events, fetches, trendUI, fn, out>>

-----------------------------------------------------------------------------
(* Bounds of the model *)

MaxRows == 2        \* rows of a table a function is applied to (SpecFn)
MaxEvents == 2      \* user events (selector changes, clicks) in one page view
MaxChildCount == 120 \* markers in one cluster of the map
MaxFailures == 1    \* failed fetches and chart-library calls in one page view

-----------------------------------------------------------------------------
(* JavaScript values *)

Undefined == "undefined"          \* a missing property
NaN == 0 - 1000000                \* Number.NaN: every comparison with it is false
FunctionObject == 0 - 2000000     \* a value that is a function, not a number

\* The global isNaN: ToNumber of its argument is NaN, as it is of a function.
isNaN(x) == x = NaN \/ x = FunctionObject
Lt(a, b) == ~isNaN(a) /\ ~isNaN(b) /\ a < b
Le(a, b) == ~isNaN(a) /\ ~isNaN(b) /\ a <= b
Gt(a, b) == Lt(b, a)
Ge(a, b) == Le(b, a)

\* The numerals that occur in the cells of the modelled CSVs, in hundredths.
Numeral ==
    ("0.10" :> 10) @@ ("0.15" :> 15) @@ ("0.30" :> 30) @@ ("0.45" :> 45) @@
    ("0" :> 0) @@ ("-1" :> (0 - 100)) @@
    ("5" :> 500) @@ ("10" :> 1000) @@ ("12" :> 1200) @@ ("20" :> 2000) @@
    ("25" :> 2500) @@ ("50" :> 5000) @@
    ("3.5" :> 350) @@ ("4.0" :> 400) @@ ("4.5" :> 450) @@
    ("2009" :> 200900) @@ ("2012" :> 201200) @@ ("2015" :> 201500) @@
    ("2024" :> 202400)

\* The cells that begin with a numeral and go on with other text, with the
\* numeral they begin with.
NumeralPrefix == ("50kW" :> "50")

\* parseFloat: the number spelled by the longest numeric prefix of the cell,
\* NaN for "", for text that begins with no numeral and for undefined.
parseFloat(s) ==
    IF s \in DOMAIN Numeral THEN Numeral[s]
    ELSE IF s \in DOMAIN NumeralPrefix THEN Numeral[NumeralPrefix[s]]
    ELSE NaN

\* ToBoolean of a cell: undefined and "" are falsy, every other string truthy.
Truthy(s) == s # Undefined /\ s # ""

-----------------------------------------------------------------------------
(* The CSV *)

TypeCol == "Charger Type"
CostCol == "Cost (USD/kWh)"
UsageCol == "Usage Stats (avg users/day)"
H24Col == "Is24Hours"
PowerCol == "IsHighPower"
RenewCol == "Renewable Energy Source"
RatingCol == "Reviews (Rating)"
YearCol == "Installation Year"
MaintCol == "Maintenance Frequency"
RangeCol == "Cost_Range"
OperatorCol == "Station Operator"
CapacityCol == "Charging Capacity (kW)"

AllColumns == {TypeCol, CostCol, UsageCol, H24Col, PowerCol, RenewCol,
               RatingCol, YearCol, MaintCol, RangeCol, OperatorCol,
               CapacityCol}

\* A row of the CSV, its cells given in the order of the columns above.
Station(ty, co, us, h24, po, re, ra, ye, ma, rg, op, ca) ==
    (TypeCol :> ty) @@ (CostCol :> co) @@ (UsageCol :> us) @@
    (H24Col :> h24) @@ (PowerCol :> po) @@ (RenewCol :> re) @@
    (RatingCol :> ra) @@ (YearCol :> ye) @@ (MaintCol :> ma) @@
    (RangeCol :> rg) @@ (OperatorCol :> op) @@ (CapacityCol :> ca)

\* The rows the modelled CSVs are made of: the three charger types, every
\* cost and usage bucket, both availability flags, and cells that are empty,
\* not numeric, zero, negative or out of the year range.
Pool == {
    Station("L1", "0.10", "5", "True", "False", "Yes", "4.0", "2012",
            "Monthly", "0.05-0.15", "ChargePoint", "50"),
    Station("L2", "0.15", "10", "False", "True", "No", "3.5", "2015",
            "Quarterly", "0.15-0.30", "Tesla", "12"),
    Station("DC", "0.30", "20", "True", "True", "Yes", "4.5", "2024",
            "Annually", "0.15-0.30", "ChargePoint", "N/A"),
    Station("DC", "0.45", "25", "False", "False", "No", "", "2009",
            "", "0.30+", "Tesla", "50kW"),
    Station("L3", "N/A", "12", "", "True", "Yes", "4.0", "",
            "Weekly", "", "", ""),
    Station("", "0", "-1", "True", "", "", "N/A", "2015",
            "constructor", "0.05-0.15", "Tesla", "12"),
    Station("L2", "0.15", "10", "", "False", "No", "3.5", "2015",
            "Quarterly", "0.15-0.30", "Tesla", "12") }

RECURSIVE SeqsUpTo(_, _)
SeqsUpTo(S, n) ==
    IF n = 0 THEN {<<>>}
    ELSE LET shorter == SeqsUpTo(S, n - 1)
         IN  shorter \cup {Append(t, r) : t \in shorter, r \in S}

\* The tables a complete header can produce.  loadData returns no table
\* without a row.
Tables == SeqsUpTo(Pool, MaxRows) \ {<<>>}

\* d3.csvParse gives every row exactly the header's columns as properties.
Restrict(row, header) == [c \in header |-> row[c]]
csvParse(file) == [i \in 1..Len(file.rows) |-> Restrict(file.rows[i], file.header)]

\* d[col]: undefined when the header had no such column.
Get(d, col) == IF col \in DOMAIN d THEN d[col] ELSE Undefined

Indices(s) == [i \in 1..Len(s) |-> i]
Range(s) == {s[i] : i \in 1..Len(s)}

-----------------------------------------------------------------------------
(* Which declaration a name is bound to *)

\* The function declarations of visualizations.js in source order.
Declarations == <<
    [name |-> "loadData", line |-> 2],
    [name |-> "createMap", line |-> 51],
    [name |-> "loadTrendChart", line |-> 145],
    [name |-> "createHeatmap", line |-> 394],
    [name |-> "createTypeUsageChart", line |-> 414],
    [name |-> "createCostRatingChart", line |-> 752],
    [name |-> "createBoxplotComparison", line |-> 1028],
    [name |-> "createOperatorAnalysis", line |-> 1241],
    [name |-> "initialize", line |-> 1393],
    [name |-> "loadData", line |-> 1417],
    [name |-> "createMap", line |-> 1466],
    [name |-> "loadTrendChart", line |-> 1560],
    [name |-> "createHeatmap", line |-> 1929],
    [name |-> "createTypeUsageChart", line |-> 1951],
    [name |-> "createCostRatingChart", line |-> 2203],
    [name |-> "initialize", line |-> 2479] >>

\* A script instantiates its function declarations before it runs, and a
\* later declaration of a name replaces an earlier one.
Bound(name) ==
    LET i == CHOOSE i \in 1..Len(Declarations) :
                 /\ Declarations[i].name = name
                 /\ \A j \in (i + 1)..Len(Declarations) :
                        Declarations[j].name # name
    IN  Declarations[i].line

\* The calls initialize makes, by declaration.
InitializeCalls(line) ==
    IF line = 1393
    THEN <<"loadData", "createMap", "loadTrendChart", "createHeatmap",
           "createCostRatingChart", "createTypeUsageChart",
           "createBoxplotComparison", "createOperatorAnalysis">>
    ELSE <<"loadData", "createMap", "loadTrendChart", "createHeatmap",
           "createCostRatingChart", "createTypeUsageChart">>

\* The chart containers of index.html.
Containers == {"map-viz", "trend-viz", "heatmap-viz", "boxplot-viz",
               "type-usage-viz", "cost-rating-viz"}

-----------------------------------------------------------------------------
(* loadData *)

requiredFields == <<CostCol, UsageCol, H24Col>>

\* Object.keys(data[0]): a TypeError when the table has no row.
FirstRowKeys(rows) == DOMAIN rows[1]

missingFields(rows) ==
    SelectSeq(requiredFields, LAMBDA f : f \notin FirstRowKeys(rows))

\* loadData with the fetch settled as `response` ("ok", "http" for a status
\* that is not OK, "reject" for a rejected request) and `file` as its body.
loadData(response, file) ==
    LET rows == csvParse(file) IN
    IF response = "reject" THEN
        [kind |-> "fetch rejected", missing |-> <<>>, rows |-> <<>>]
    ELSE IF response = "http" THEN
        [kind |-> "HTTP error", missing |-> <<>>, rows |-> <<>>]
    ELSE IF Len(rows) = 0 THEN
        [kind |-> "TypeError", missing |-> <<>>, rows |-> <<>>]
    ELSE IF Len(missingFields(rows)) > 0 THEN
        [kind |-> "Missing required fields", missing |-> missingFields(rows),
         rows |-> <<>>]
    ELSE
        [kind |-> "ok", missing |-> <<>>, rows |-> rows]

-----------------------------------------------------------------------------
(* d3 helpers *)

\* The positions of s whose key occurs there for the first time.
FirstAt(keys) == {i \in 1..Len(keys) : \A j \in 1..(i - 1) : keys[j] # keys[i]}

\* (variant: the members of a group are chosen by the first key only)
rollupByFirstKey(rows, fields) ==
    LET Key(r) == [k \in 1..Len(fields) |-> r[fields[k]]]
        keys == [i \in 1..Len(rows) |-> Key(rows[i])]
        firsts == FirstAt(keys)
        Nth(k) == CHOOSE i \in firsts :
                      Cardinality({j \in firsts : j <= i}) = k
    IN  [k \in 1..Cardinality(firsts) |->
            [key |-> keys[Nth(k)],
             members |-> SelectSeq(rows, LAMBDA r : Key(r)[1] = keys[Nth(k)][1])]]

\* d3.rollup / d3.group on one key: a group per distinct key, in the order
\* the keys first occur, each with its members in table order.
rollup(rows, fields) ==
    LET Key(r) == [k \in 1..Len(fields) |-> r[fields[k]]]
        keys == [i \in 1..Len(rows) |-> Key(rows[i])]
        firsts == FirstAt(keys)
        Nth(k) == CHOOSE i \in firsts :
                      Cardinality({j \in firsts : j <= i}) = k
    IN  [k \in 1..Cardinality(firsts) |->
            [key |-> keys[Nth(k)],
             members |-> SelectSeq(rows, LAMBDA r : Key(r) = keys[Nth(k)])]]

RECURSIVE SumTo(_, _)
SumTo(xs, n) == IF n = 0 THEN 0 ELSE SumTo(xs, n - 1) + xs[n]

\* d3.mean: undefined (no number) for an empty array.
mean(xs) == IF Len(xs) = 0 THEN NaN ELSE SumTo(xs, Len(xs)) \div Len(xs)

\* d3.max: undefined for an empty array; a scale coerces it to NaN.
RECURSIVE MaxTo(_, _)
MaxTo(xs, n) ==
    IF n = 1 THEN xs[1]
    ELSE LET m == MaxTo(xs, n - 1) IN IF xs[n] > m THEN xs[n] ELSE m
max(xs) == IF Len(xs) = 0 THEN NaN ELSE MaxTo(xs, Len(xs))

\* A child of a chart container.  `groups` holds the groups a statistics
\* panel lists, and is empty for every other element.
Element(tag) == [tag |-> tag, groups |-> <<>>]
StatsPanel(groups) == [tag |-> "stats", groups |-> groups]
Tags(children) == {children[i].tag : i \in 1..Len(children)}

-----------------------------------------------------------------------------
(* Cost vs rating chart (createCostRatingChart)                            *)

CostRatingRecord(d) ==
    [charger_type |-> Get(d, TypeCol),
     cost |-> parseFloat(Get(d, CostCol)),
     rating |-> parseFloat(Get(d, RatingCol)),
     is24Hours |-> (Get(d, H24Col) = "True")]

\* The filter without the test of the 'limited' selection.
CostRatingKeepIgnoringLimited(s, m) ==
    /\ ~(isNaN(m.cost) \/ isNaN(m.rating) \/ Le(m.cost, 0) \/ Lt(m.rating, 0))
    /\ ~(s.type # "all" /\ m.charger_type # s.type)
    /\ ~(s.availability = "24h" /\ ~m.is24Hours)

CostRatingKeep(s, m) ==
    /\ ~(isNaN(m.cost) \/ isNaN(m.rating) \/ Le(m.cost, 0) \/ Lt(m.rating, 0))
    /\ ~(s.type # "all" /\ m.charger_type # s.type)
    /\ ~(s.availability = "24h" /\ ~m.is24Hours)
    /\ ~(s.availability = "limited" /\ m.is24Hours)

CostRatingProcessData(s, rows) ==
    SelectSeq([i \in 1..Len(rows) |-> CostRatingRecord(rows[i])],
              LAMBDA m : CostRatingKeep(s, m))

CostRatingStats(pd) == StatsPanel(rollup(pd, <<"charger_type">>))

CostRatingOptions ==
    [type : {"all", "L1", "L2", "DC"}, availability : {"all", "24h", "limited"}]

-----------------------------------------------------------------------------
(* Usage chart (createTypeUsageChart), the declaration at line 1951        *)

UsageRecord(d) ==
    [charger_type |-> Get(d, TypeCol),
     usage |-> parseFloat(Get(d, UsageCol))]

\* (variant: 'medium' without its lower threshold)
UsageKeepMediumFromZero(s, m) ==
    /\ ~(isNaN(m.usage) \/ Lt(m.usage, 0))
    /\ ~(s.type # "all" /\ m.charger_type # s.type)
    /\ CASE s.range = "medium" -> Le(m.usage, 1500)
         [] s.range = "high" -> Gt(m.usage, 1500)
         [] OTHER -> TRUE

UsageKeep(s, m) ==
    /\ ~(isNaN(m.usage) \/ Lt(m.usage, 0))
    /\ ~(s.type # "all" /\ m.charger_type # s.type)
    /\ CASE s.range = "medium" -> Gt(m.usage, 500) /\ Le(m.usage, 1500)
         [] s.range = "high" -> Gt(m.usage, 1500)
         [] OTHER -> TRUE

UsageProcessData(s, rows) ==
    SelectSeq([i \in 1..Len(rows) |-> UsageRecord(rows[i])],
              LAMBDA m : UsageKeep(s, m))

UsageStats(pd) == StatsPanel(rollup(pd, <<"charger_type">>))

UsageOptions ==
    [type : {"all", "L1", "L2", "DC"}, range : {"all", "medium", "high"}]

-----------------------------------------------------------------------------
(* Boxplot feature comparison (createBoxplotComparison)                     *)

features == {"rating", "usage", "capacity", "maintenance"}

FeatureField(f) ==
    CASE f = "rating" -> RatingCol
      [] f = "usage" -> UsageCol
      [] f = "capacity" -> CapacityCol
      [] f = "maintenance" -> MaintCol

\* The property names an object literal inherits from Object.prototype
\* with a function as value.
InheritedMethods ==
    {"constructor", "toString", "toLocaleString", "valueOf", "hasOwnProperty",
     "isPrototypeOf", "propertyIsEnumerable"}

\* features[3].transform: scores[value] || 0, where scores is an object
\* literal with the keys Monthly, Quarterly, Annually.  The lookup also
\* finds inherited properties, which are truthy.
transform(value) ==
    CASE value = "Monthly" -> 300
      [] value = "Quarterly" -> 200
      [] value = "Annually" -> 100
      [] value \in InheritedMethods -> FunctionObject
      [] OTHER -> 0

BoxplotRecord(f, d) ==
    [type |-> Get(d, TypeCol),
     value |-> IF f = "maintenance" THEN transform(Get(d, FeatureField(f)))
               ELSE parseFloat(Get(d, FeatureField(f))),
     costRange |-> Get(d, RangeCol),
     operator |-> Get(d, OperatorCol),
     renewable |-> Get(d, RenewCol)]

\* (variant: no record is filtered out)
BoxplotProcessDataUnfiltered(f, rows) ==
    [i \in 1..Len(rows) |-> BoxplotRecord(f, rows[i])]

BoxplotProcessData(f, rows) ==
    SelectSeq([i \in 1..Len(rows) |-> BoxplotRecord(f, rows[i])],
              LAMBDA m : ~isNaN(m.value))

\* d3.rollup on (type, costRange): the groups of the statistics panel in
\* the order the panel lists them.
BoxplotStats(pd) ==
    StatsPanel(rollup(pd, <<"type", "costRange">>))

-----------------------------------------------------------------------------
(* Operator analysis (createOperatorAnalysis)                               *)

OperatorRecord(d) ==
    [operator |-> Get(d, OperatorCol),
     rating |-> parseFloat(Get(d, RatingCol)),
     usage |-> parseFloat(Get(d, UsageCol)),
     renewable |-> Get(d, RenewCol),
     chargerType |-> Get(d, TypeCol),
     capacity |-> parseFloat(Get(d, CapacityCol))]

OperatorProcessData(rows) ==
    SelectSeq([i \in 1..Len(rows) |-> OperatorRecord(rows[i])],
              LAMBDA m : ~isNaN(m.rating) /\ ~isNaN(m.usage) /\ ~isNaN(m.capacity))

OperatorStats(pd) == StatsPanel(rollup(pd, <<"operator">>))

-----------------------------------------------------------------------------
(* Usage chart, the earlier declaration at line 414 (five selectors)       *)

UsageRecordGen1(d) ==
    [charger_type |-> Get(d, TypeCol),
     usage |-> parseFloat(Get(d, UsageCol)),
     is_high_power |-> (Get(d, PowerCol) = "True"),
     cost |-> parseFloat(Get(d, CostCol)),
     renewable |-> Get(d, RenewCol),
     hours |-> IF Get(d, H24Col) = "True" THEN "24/7" ELSE "Limited"]

\* (variant: the cost selector is read only while the type selector is 'all')
UsageKeepGen1CostUnderType(s, m) ==
    /\ ~(isNaN(m.usage) \/ Lt(m.usage, 0))
    /\ ~(s.type # "all" /\ m.charger_type # s.type)
    /\ ~(s.power = "high" /\ ~m.is_high_power)
    /\ ~(s.power = "standard" /\ m.is_high_power)
    /\ ~(s.type = "all" /\ s.cost = "low" /\ Ge(m.cost, 15))
    /\ ~(s.type = "all" /\ s.cost = "medium" /\ (Lt(m.cost, 15) \/ Gt(m.cost, 30)))
    /\ ~(s.type = "all" /\ s.cost = "high" /\ Le(m.cost, 30))
    /\ ~(s.renewable = "yes" /\ m.renewable # "Yes")
    /\ ~(s.renewable = "no" /\ m.renewable = "Yes")
    /\ CASE s.range = "low" -> Le(m.usage, 1000)
         [] s.range = "medium" -> Gt(m.usage, 1000) /\ Le(m.usage, 2000)
         [] s.range = "high" -> Gt(m.usage, 2000)
         [] OTHER -> TRUE

UsageKeepGen1(s, m) ==
    /\ ~(isNaN(m.usage) \/ Lt(m.usage, 0))
    /\ ~(s.type # "all" /\ m.charger_type # s.type)
    /\ ~(s.power = "high" /\ ~m.is_high_power)
    /\ ~(s.power = "standard" /\ m.is_high_power)
    /\ ~(s.cost = "low" /\ Ge(m.cost, 15))
    /\ ~(s.cost = "medium" /\ (Lt(m.cost, 15) \/ Gt(m.cost, 30)))
    /\ ~(s.cost = "high" /\ Le(m.cost, 30))
    /\ ~(s.renewable = "yes" /\ m.renewable # "Yes")
    /\ ~(s.renewable = "no" /\ m.renewable = "Yes")
    /\ CASE s.range = "low" -> Le(m.usage, 1000)
         [] s.range = "medium" -> Gt(m.usage, 1000) /\ Le(m.usage, 2000)
         [] s.range = "high" -> Gt(m.usage, 2000)
         [] OTHER -> TRUE

UsageProcessDataGen1(s, rows) ==
    SelectSeq([i \in 1..Len(rows) |-> UsageRecordGen1(rows[i])],
              LAMBDA m : UsageKeepGen1(s, m))

UsageOptionsGen1 ==
    [type : {"all", "L1", "L2", "DC"},
     power : {"all", "high", "standard"},
     cost : {"all", "low", "medium", "high"},
     renewable : {"all", "yes", "no"},
     range : {"all", "low", "medium", "high"}]

-----------------------------------------------------------------------------
(* Trend chart, the earlier declaration at line 145 (availability filter)  *)

TrendOptionsGen1 == {"all", "24/7", "limited"}

TrendFilterGen1(selectedAvailability, rows) ==
    SelectSeq(rows, LAMBDA d :
        CASE selectedAvailability = "all" -> TRUE
          [] selectedAvailability = "24/7" -> Get(d, H24Col) = "True"
          [] selectedAvailability = "limited" -> Get(d, H24Col) = "False"
          [] OTHER -> TRUE)

types == <<"L1", "L2", "DC">>

\* The keys of the rollup on 'Installation Year' that pass
\* year && year >= 2010 && year <= 2024, sorted.  The keys are the cells'
\* strings; for the four-digit years that pass, the string order of
\* Array.prototype.sort is their numeric order.
years(rows) ==
    LET keys == {Get(rows[i], YearCol) : i \in 1..Len(rows)}
        pass == {y \in keys : Truthy(y) /\ Ge(parseFloat(y), 201000)
                                        /\ Le(parseFloat(y), 202400)}
        Nth(k) == CHOOSE y \in pass :
                     Cardinality({z \in pass : parseFloat(z) <= parseFloat(y)}) = k
    IN  [k \in 1..Cardinality(pass) |-> Nth(k)]

\* Points only for the (year, type) pairs that have records.
trendDataWithoutZeros(rows) ==
    LET ys == years(rows)
        Count(y, t) == Cardinality({i \in 1..Len(rows) :
                          Get(rows[i], YearCol) = y /\ Get(rows[i], TypeCol) = t})
    IN  SelectSeq([k \in 1..(3 * Len(ys)) |->
                      LET y == ys[((k - 1) \div 3) + 1]
                          t == types[((k - 1) % 3) + 1]
                      IN  [year |-> parseFloat(y) \div 100, type |-> t,
                           count |-> Count(y, t)]],
                  LAMBDA pt : pt.count > 0)

\* One point per (year, type): yearlyData.get(year)?.get(type) || 0
trendData(rows) ==
    LET ys == years(rows)
        Count(y, t) == Cardinality({i \in 1..Len(rows) :
                          Get(rows[i], YearCol) = y /\ Get(rows[i], TypeCol) = t})
    IN  [k \in 1..(3 * Len(ys)) |->
            LET y == ys[((k - 1) \div 3) + 1]
                t == types[((k - 1) % 3) + 1]
            IN  [year |-> parseFloat(y) \div 100, type |-> t, count |-> Count(y, t)]]

\* The y scale's domain: [10, d3.max(trendData, d => d.count)]
TrendYDomainGen1(points) == <<10, max([i \in 1..Len(points) |-> points[i].count])>>

-----------------------------------------------------------------------------
(* The map: marker colours                                                  *)

\* createMap at line 51
MarkerColorGen1(d) ==
    CASE Get(d, TypeCol) = "L1" -> "#FF6B6B"
      [] Get(d, TypeCol) = "L2" -> "#4ECDC4"
      [] Get(d, TypeCol) = "DC" -> "#45B7D1"
      [] OTHER -> "#999"

\* createMap at line 1466, the one the page runs
MarkerColor(d) ==
    CASE Get(d, TypeCol) = "L1" -> "#ff4d4d"
      [] Get(d, TypeCol) = "L2" -> "#3385ff"
      [] Get(d, TypeCol) = "DC" -> "#33cc33"
      [] OTHER -> "#999"

\* The older script's createMap: typeColors[d['Charger Type']], with no
\* fallback; d3 sets no fill attribute for undefined.
typeColors(type) ==
    CASE type = "L1" -> "#ff4d4d"
      [] type = "L2" -> "#3385ff"
      [] type = "DC" -> "#33cc33"
      [] OTHER -> Undefined

MapOptionsOld ==
    [type : {"all", "L1", "L2", "DC"}, availability : {"all", "24h", "limited"}]

\* The older script's filterData: d.Is24Hours is used as a boolean, and is
\* a string (truthy unless empty).
filterData(s, rows) ==
    SelectSeq(rows, LAMBDA d :
        LET typeMatch == s.type = "all" \/ Get(d, TypeCol) = s.type
            availabilityMatch ==
                \/ s.availability = "all"
                \/ (s.availability = "24h" /\ Truthy(Get(d, H24Col)))
                \/ (s.availability = "limited" /\ ~Truthy(Get(d, H24Col)))
        IN  typeMatch /\ availabilityMatch)

-----------------------------------------------------------------------------
(* The result of one call of a chart function                               *)

\* What one call of a chart's update function puts on the page:
\*   message  - the message written instead of a chart ("" when none)
\*   filtered - how many records passed the function's filter
\*   plotted  - the records handed to the chart
\*   hasPanel - whether a statistics panel is appended
\*   numbers  - the numbers computed from the records and written into the
\*              page: statistics of the panel, scale domains, positions
\*   colors   - the fill colours of the markers of a map
View(message, filtered, plotted, hasPanel, numbers, colors) ==
    [message |-> message, filtered |-> filtered, plotted |-> plotted,
     hasPanel |-> hasPanel, numbers |-> numbers, colors |-> colors]

NoView == View("", 0, <<>>, FALSE, {}, <<>>)

-----------------------------------------------------------------------------
(* The page: state *)

\* The rows and headers of the CSVs served to the page.
PagePool == {r \in Pool : r[TypeCol] = "L1" \/ r[RatingCol] = ""}

Headers == {AllColumns \ m : m \in SUBSET {CostCol, UsageCol, H24Col}}
           \cup {AllColumns \ {RatingCol}, AllColumns \ {RatingCol, CostCol}}

\* No row, one row, or both rows with the complete one first.
PageTables ==
    {t \in SeqsUpTo(PagePool, Cardinality(PagePool)) :
        \A i, j \in 1..Len(t) : i < j => t[i][RatingCol] # "" /\ t[j][RatingCol] = ""}

CsvFiles == {[header |-> h, rows |-> t] : h \in Headers, t \in PageTables}

Responses == {"ok", "http", "reject"}

\* Whether one more fetch or library call may fail in this page view.
MayFail == Cardinality(failed) < MaxFailures

AsyncFns == {"loadData", "createMap", "loadTrendChart", "createHeatmap"}

\* The charts with selectors that the page creates.
FilterCharts == {"cost-rating-viz", "type-usage-viz"}

Options(c) == IF c = "cost-rating-viz" THEN CostRatingOptions ELSE UsageOptions

ProcessData(c, s, rows) ==
    IF c = "cost-rating-viz" THEN CostRatingProcessData(s, rows)
    ELSE UsageProcessData(s, rows)

Stats(c, pd) ==
    CASE c = "cost-rating-viz" -> CostRatingStats(pd)
      [] c = "type-usage-viz" -> UsageStats(pd)
      [] c = "boxplot-viz" -> BoxplotStats(pd)

\* The containers a pending vegaEmbed can belong to.
EmbedCharts == FilterCharts \cup {"boxplot-viz"}

NoResult == [kind |-> "none", missing |-> <<>>, rows |-> <<>>]

PageInit ==
    /\ csv \in CsvFiles
    /\ pc = "idle"
    /\ task = [f \in AsyncFns |-> "idle"]
    /\ failed = {}
    /\ loadResult = NoResult
    /\ data = <<>>
    /\ trendTable = <<>>
    /\ container = [c \in Containers |-> <<>>]
    /\ sel = [c \in FilterCharts |->
                 IF c = "cost-rating-viz"
                 THEN [type |-> "all", availability |-> "all"]
                 ELSE [type |-> "all", range |-> "all"]]
    /\ pending = [c \in EmbedCharts |-> <<>>]
    /\ events = 0
    /\ fetches = <<>>
    /\ visibilityState = [t \in Range(types) |-> TRUE]
    /\ selected = {}
    /\ hiddenDots = {}
    /\ highlight = [lines |-> {}, dots |-> {}]
    /\ tooltip = 0

Init ==
    /\ PageInit
    /\ fn = [name |-> "none"]
    /\ out = NoView

-----------------------------------------------------------------------------
(* The page: initialize *)

\* (variant: initialize does not await createHeatmap)
AwaitedNoHeatmap(step) == step \in {"loadData", "createMap", "loadTrendChart"}

\* Whether initialize awaits the promise of the call before it goes on.
Awaited(step) == step \in {"loadData", "createMap", "loadTrendChart", "createHeatmap"}

\* The statement initialize goes to after `step`.
AfterStep(step) ==
    CASE step = "loadData" -> "createMap"
      [] step = "createMap" -> "loadTrendChart"
      [] step = "loadTrendChart" -> "createHeatmap"
      [] step = "createHeatmap" -> "rest"

\* initialize's position once it has called `step`, whose promise is
\* settled iff `settled`.
AfterCall(step, settled) ==
    IF Awaited(step) /\ ~settled THEN step ELSE AfterStep(step)

\* initialize's position when the promise of `step` settles.
AfterSettle(step) ==
    IF pc = step /\ Awaited(step) THEN AfterStep(step) ELSE pc

CsvUrl == "data/processed_detailed_ev_charging_stations.csv"

HeatmapSpecUrl == "heatmap_spec.json"

\* Two fetch calls where the code has one.
fetchTwice(by, url) ==
    fetches \o <<[by |-> by, url |-> url], [by |-> by, url |-> url]>>

\* fetch(url), called by the function `by' (loadData on behalf of its caller).
fetch(by, url) ==
    Append(fetches, [by |-> by, url |-> url])

\* window 'load': initialize calls loadData, which issues the fetch.
PageLoad ==
    /\ pc = "idle"
    /\ pc' = "loadData"
    /\ task' = [task EXCEPT !["loadData"] = "fetch"]
    /\ fetches' = fetch("initialize", CsvUrl)
    /\ UNCHANGED <<csv, failed, loadResult, data, trendTable, container, sel,
                   pending, events, fn, out, trendUI>>

\* The CSV fetch of initialize settles; loadData returns the table or throws
\* into initialize's catch, which only logs.
LoadDataSettles ==
    /\ pc = "loadData"
    /\ task["loadData"] = "fetch"
    /\ \E response \in Responses :
          LET r == loadData(response, csv) IN
          /\ r.kind = "ok" \/ MayFail
          /\ loadResult' = r
          /\ data' = r.rows
          /\ pc' = IF r.kind = "ok" THEN AfterStep("loadData") ELSE "caught"
          /\ failed' = IF r.kind = "ok" THEN failed ELSE failed \cup {"csv"}
    /\ task' = [task EXCEPT !["loadData"] = "done"]
    /\ UNCHANGED <<csv, fetches, trendTable, container, sel, pending, events, fn, out, trendUI>>

\* createMap(data): the whole body runs in the call; a Leaflet failure is
\* caught and replaces the container's content by the error message.
CallCreateMap ==
    /\ pc = "createMap"
    /\ task["createMap"] = "idle"
    /\ \E ok \in BOOLEAN :
          /\ ok \/ MayFail
          /\ container' = [container EXCEPT !["map-viz"] =
                IF ok THEN <<Element("chart"), Element("count")>>
                ELSE <<Element("error")>>]
          /\ failed' = IF ok THEN failed ELSE failed \cup {"lib:map-viz"}
    /\ task' = [task EXCEPT !["createMap"] = "done"]
    /\ pc' = AfterCall("createMap", TRUE)
    /\ UNCHANGED <<csv, fetches, loadResult, data, trendTable, sel, pending, events,
                   fn, out, trendUI>>

\* loadTrendChart(): runs up to its own `await loadData()`.
CallLoadTrendChart ==
    /\ pc = "loadTrendChart"
    /\ task["loadTrendChart"] = "idle"
    /\ task' = [task EXCEPT !["loadTrendChart"] = "fetch"]
    /\ fetches' = fetch("loadTrendChart", CsvUrl)
    /\ pc' = AfterCall("loadTrendChart", FALSE)
    /\ UNCHANGED <<csv, failed, loadResult, data, trendTable, container, sel,
                   pending, events, fn, out, trendUI>>

\* The trend chart's fetch settles: the chart is drawn, or the catch block
\* writes the error message.
TrendLoadSettles ==
    /\ task["loadTrendChart"] = "fetch"
    /\ \E response \in Responses, ok \in BOOLEAN :
          LET r == loadData(response, csv) IN
          /\ (r.kind = "ok" /\ ok) \/ MayFail
          /\ trendTable' = r.rows
          /\ container' = [container EXCEPT !["trend-viz"] =
                IF r.kind = "ok" /\ ok THEN <<Element("chart")>>
                ELSE <<Element("error")>>]
          /\ failed' = failed
                \cup (IF r.kind = "ok" THEN {} ELSE {"csv:trend"})
                \cup (IF r.kind = "ok" /\ ~ok THEN {"lib:trend-viz"} ELSE {})
    /\ task' = [task EXCEPT !["loadTrendChart"] = "done"]
    /\ pc' = AfterSettle("loadTrendChart")
    /\ UNCHANGED <<csv, fetches, loadResult, data, sel, pending, events, fn, out, trendUI>>

\* createHeatmap(): runs up to `await fetch('heatmap_spec.json')`.
CallCreateHeatmap ==
    /\ pc = "createHeatmap"
    /\ task["createHeatmap"] = "idle"
    /\ task' = [task EXCEPT !["createHeatmap"] = "fetch"]
    /\ fetches' = fetch("createHeatmap", HeatmapSpecUrl)
    /\ pc' = AfterCall("createHeatmap", FALSE)
    /\ UNCHANGED <<csv, failed, loadResult, data, trendTable, container, sel,
                   pending, events, fn, out, trendUI>>

\* The heatmap spec's fetch settles: vegaEmbed is called, or the catch block
\* writes the error message.
HeatmapFetchSettles ==
    /\ task["createHeatmap"] = "fetch"
    /\ \E response \in Responses :
          IF response = "ok"
          THEN /\ task' = [task EXCEPT !["createHeatmap"] = "embed"]
               /\ UNCHANGED <<pc, container, failed>>
          ELSE /\ MayFail
               /\ task' = [task EXCEPT !["createHeatmap"] = "done"]
               /\ container' = [container EXCEPT !["heatmap-viz"] =
                                    <<Element("error")>>]
               /\ failed' = failed \cup {"heatmap_spec"}
               /\ pc' = AfterSettle("createHeatmap")
    /\ UNCHANGED <<csv, fetches, loadResult, data, trendTable, sel, pending, events,
                   fn, out, trendUI>>

\* The heatmap's vegaEmbed settles.
HeatmapEmbedSettles ==
    /\ task["createHeatmap"] = "embed"
    /\ \E ok \in BOOLEAN :
          /\ ok \/ MayFail
          /\ container' = [container EXCEPT !["heatmap-viz"] =
                IF ok THEN <<Element("chart")>> ELSE <<Element("error")>>]
          /\ failed' = IF ok THEN failed ELSE failed \cup {"lib:heatmap-viz"}
    /\ task' = [task EXCEPT !["createHeatmap"] = "done"]
    /\ pc' = AfterSettle("createHeatmap")
    /\ UNCHANGED <<csv, fetches, loadResult, data, trendTable, sel, pending, events,
                   fn, out, trendUI>>

-----------------------------------------------------------------------------
(* The page: the charts with selectors *)

\* container.innerHTML = ...: the divs of the embeds still pending leave the
\* document.
Detach(pend) == [i \in 1..Len(pend) |-> [pend[i] EXCEPT !.attached = FALSE]]

\* (variant: the chart and its statistics are in the container when
\* updateChart returns, and nothing is left pending)
updateChartSynchronous(c, s, rows, children, pend) ==
    LET pd == ProcessData(c, s, rows) IN
    IF Len(pd) = 0
    THEN [children |-> <<Element("nodata")>>, pending |-> Detach(pend)]
    ELSE [children |-> children \o <<Element("chart"), Stats(c, pd)>>,
          pending |-> pend]

\* updateChart of the cost-rating and usage charts: the "no data" message
\* replaces the container's content when the selection matches no record;
\* otherwise a chart div is appended and vegaEmbed is started on it.
updateChart(c, s, rows, children, pend) ==
    LET pd == ProcessData(c, s, rows) IN
    IF Len(pd) = 0
    THEN [children |-> <<Element("nodata")>>, pending |-> Detach(pend)]
    ELSE [children |-> Append(children, Element("chartDiv")),
          pending |-> Append(pend, [pd |-> pd, attached |-> TRUE])]

\* createCostRatingChart(data) / createTypeUsageChart(data): the filters are
\* appended and the first chart is drawn; an exception is caught and the
\* error message replaces the container's content.
CreateChart(c, ok, rows) ==
    IF ok
    THEN updateChart(c, sel[c], rows, <<Element("filters")>>, <<>>)
    ELSE [children |-> <<Element("error")>>, pending |-> <<>>]

\* createBoxplotComparison(data): updateChart('rating') clears the
\* container, puts the selector back and starts vegaEmbed on a new div.
CreateBoxplot(ok, rows) ==
    IF ok
    THEN [children |-> <<Element("filters"), Element("chartDiv")>>,
          pending |-> <<[pd |-> BoxplotProcessData("rating", rows),
                         attached |-> TRUE]>>]
    ELSE [children |-> <<Element("error")>>, pending |-> <<>>]

\* The synchronous calls that end initialize.  createOperatorAnalysis finds
\* no 'operator-viz' element, and its catch block throws on the same
\* missing element, which ends initialize in its own catch.
RestCalls == Range(SubSeq(InitializeCalls(Bound("initialize")), 5,
                          Len(InitializeCalls(Bound("initialize")))))

InitializeRest ==
    /\ pc = "rest"
    /\ \E okC \in BOOLEAN, okU \in BOOLEAN, okB \in BOOLEAN :
          LET made == [c \in EmbedCharts |->
                  CASE c = "cost-rating-viz" -> CreateChart(c, okC, data)
                    [] c = "type-usage-viz" -> CreateChart(c, okU, data)
                    [] c = "boxplot-viz" -> CreateBoxplot(okB, data)]
              called == [c \in EmbedCharts |->
                  CASE c = "cost-rating-viz" -> "createCostRatingChart" \in RestCalls
                    [] c = "type-usage-viz" -> "createTypeUsageChart" \in RestCalls
                    [] c = "boxplot-viz" -> "createBoxplotComparison" \in RestCalls]
              oks == [c \in EmbedCharts |->
                  CASE c = "cost-rating-viz" -> okC
                    [] c = "type-usage-viz" -> okU
                    [] c = "boxplot-viz" -> okB]
          IN  /\ \A c \in EmbedCharts : ~called[c] => oks[c]
              /\ Cardinality(failed) + Cardinality({c \in EmbedCharts : ~oks[c]})
                    <= MaxFailures
              /\ container' = [c \in Containers |->
                    IF c \in EmbedCharts /\ called[c]
                    THEN made[c].children ELSE container[c]]
              /\ pending' = [c \in EmbedCharts |->
                    IF called[c] THEN made[c].pending ELSE pending[c]]
              /\ failed' = failed \cup
                    {"lib:" \o c : c \in {x \in EmbedCharts : called[x] /\ ~oks[x]}}
    /\ pc' = IF "createOperatorAnalysis" \in RestCalls THEN "caught" ELSE "done"
    /\ UNCHANGED <<csv, fetches, task, loadResult, data, trendTable, sel, events, fn, out, trendUI>>

\* The selections one change event away from s.
OneChange(c, s) ==
    {t \in Options(c) : Cardinality({k \in DOMAIN s : s[k] # t[k]}) = 1}

\* (variant: the listener filters the table in place)
SelectorChangeInPlace(c, t) ==
    /\ "filters" \in Tags(container[c])
    /\ events < MaxEvents
    /\ t \in OneChange(c, sel[c])
    /\ LET u == updateChart(c, t, data, <<Element("filters")>>,
                             Detach(pending[c]))
       IN  /\ container' = [container EXCEPT ![c] = u.children]
           /\ pending' = [pending EXCEPT ![c] = u.pending]
    /\ data' = SelectSeq(data, LAMBDA d : Len(ProcessData(c, t, <<d>>)) > 0)
    /\ sel' = [sel EXCEPT ![c] = t]
    /\ events' = events + 1
    /\ UNCHANGED <<csv, fetches, pc, task, failed, loadResult, trendTable, fn, out, trendUI>>

\* A selector of chart c changes: the listener empties the container, puts
\* the filters back and calls updateChart.
SelectorChange(c, t) ==
    /\ "filters" \in Tags(container[c])
    /\ events < MaxEvents
    /\ t \in OneChange(c, sel[c])
    /\ LET u == updateChart(c, t, data, <<Element("filters")>>,
                             Detach(pending[c]))
       IN  /\ container' = [container EXCEPT ![c] = u.children]
           /\ pending' = [pending EXCEPT ![c] = u.pending]
    /\ sel' = [sel EXCEPT ![c] = t]
    /\ events' = events + 1
    /\ UNCHANGED <<csv, fetches, pc, task, failed, loadResult, data, trendTable, fn, out, trendUI>>

\* The points of the trend chart the page has drawn, one dot each.
Dots == trendData(trendTable)

TrendDrawn == "chart" \in Tags(container["trend-viz"])

\* The click handler of the chart's group: every selection is removed and
\* the tooltip hidden.  A click on a legend item bubbles to it; a click on
\* a dot does not (stopPropagation).
ClearSelection ==
    /\ selected' = {}
    /\ highlight' = [highlight EXCEPT !.dots = @ \ selected]
    /\ tooltip' = 0

DotsOf(type) == {i \in 1..Len(Dots) : Dots[i].type = type}

\* updateVisibility(type) on the points: a transition to opacity 0 or 0.8
\* (and pointer-events none or all) is scheduled on every point of the
\* type.  A point in `interrupted` gets a later transition from the same
\* handler run; d3 runs one unnamed transition per element, the later one
\* interrupts the earlier one after its first frame, and the point keeps
\* the opacity it had (pointer-events, not interpolated, is already set).
updateVisibility(type, interrupted) ==
    IF visibilityState[type]
    THEN hiddenDots \cup (DotsOf(type) \ interrupted)
    ELSE hiddenDots \ (DotsOf(type) \ interrupted)

\* A click on the legend item of `type`: updateVisibility(type), then the
\* group's click handler, whose transition runs on the selected points.
LegendClick(type) ==
    /\ TrendDrawn
    /\ events < MaxEvents
    /\ visibilityState' = [visibilityState EXCEPT ![type] = ~visibilityState[type]]
    /\ hiddenDots' = updateVisibility(type, selected)
    /\ ClearSelection
    /\ events' = events + 1
    /\ UNCHANGED <<csv, fetches, pc, task, failed, loadResult, data, trendTable,
                   container, sel, pending, fn, out>>

\* A click on dot i, which receives pointer events unless its type has been
\* hidden (pointer-events: none).
DotClick(i) ==
    /\ TrendDrawn
    /\ events < MaxEvents
    /\ i \in 1..Len(Dots)
    /\ visibilityState[Dots[i].type]
    /\ LET isSelected == i \in selected IN
       /\ selected' = IF isSelected THEN {} ELSE {i}
       /\ highlight' = [highlight EXCEPT !.dots =
                            (@ \ selected) \cup (IF isSelected THEN {} ELSE {i})]
       /\ tooltip' = IF isSelected THEN 0 ELSE i
    /\ events' = events + 1
    /\ UNCHANGED <<csv, fetches, pc, task, failed, loadResult, data, trendTable,
                   container, sel, pending, visibilityState, hiddenDots, fn, out>>

\* (variant: the handler does not test visibilityState)
DotMouseOverUnguarded(i) ==
    /\ TrendDrawn
    /\ events < MaxEvents
    /\ i \in 1..Len(Dots)
    /\ highlight' = [lines |-> highlight.lines \cup {Dots[i].type},
                     dots |-> highlight.dots \cup {i}]
    /\ tooltip' = i
    /\ events' = events + 1
    /\ UNCHANGED <<csv, fetches, pc, task, failed, loadResult, data, trendTable,
                   container, sel, pending, visibilityState, selected,
                   hiddenDots, fn, out>>

\* The pointer moves onto dot i.  While the type is shown the dot and its
\* line are highlighted and the tooltip shows the dot's type, year and
\* count.  While it is hidden the dot has pointer-events none, and the
\* handler tests visibilityState[type] as well.
DotMouseOver(i) ==
    /\ TrendDrawn
    /\ events < MaxEvents
    /\ i \in 1..Len(Dots)
    /\ IF visibilityState[Dots[i].type]
       THEN /\ highlight' = [lines |-> highlight.lines \cup {Dots[i].type},
                             dots |-> highlight.dots \cup {i}]
            /\ tooltip' = i
       ELSE UNCHANGED <<highlight, tooltip>>
    /\ events' = events + 1
    /\ UNCHANGED <<csv, fetches, pc, task, failed, loadResult, data, trendTable,
                   container, sel, pending, visibilityState, selected,
                   hiddenDots, fn, out>>

\* The pointer leaves dot i: while the type is shown and unless the dot is
\* selected, the dot and its line are restored and the tooltip hidden.
DotMouseOut(i) ==
    /\ TrendDrawn
    /\ events < MaxEvents
    /\ i \in 1..Len(Dots)
    /\ IF visibilityState[Dots[i].type] /\ i \notin selected
       THEN /\ highlight' = [lines |-> highlight.lines \ {Dots[i].type},
                             dots |-> highlight.dots \ {i}]
            /\ tooltip' = 0
       ELSE UNCHANGED <<highlight, tooltip>>
    /\ events' = events + 1
    /\ UNCHANGED <<csv, fetches, pc, task, failed, loadResult, data, trendTable,
                   container, sel, pending, visibilityState, selected,
                   hiddenDots, fn, out>>

\* The pointer moves onto the line of `type`.  A line of opacity 0 still
\* receives the event; the handler acts only while the type is shown.
LineMouseOver(type) ==
    /\ TrendDrawn
    /\ events < MaxEvents
    /\ highlight' = IF visibilityState[type]
                    THEN [highlight EXCEPT !.lines = @ \cup {type}]
                    ELSE highlight
    /\ events' = events + 1
    /\ UNCHANGED <<csv, fetches, pc, task, failed, loadResult, data, trendTable,
                   container, sel, pending, visibilityState, selected,
                   hiddenDots, tooltip, fn, out>>

\* The pointer leaves the line of `type`.
LineMouseOut(type) ==
    /\ TrendDrawn
    /\ events < MaxEvents
    /\ highlight' = IF visibilityState[type]
                    THEN [highlight EXCEPT !.lines = @ \ {type}]
                    ELSE highlight
    /\ events' = events + 1
    /\ UNCHANGED <<csv, fetches, pc, task, failed, loadResult, data, trendTable,
                   container, sel, pending, visibilityState, selected,
                   hiddenDots, tooltip, fn, out>>

\* A click on another element of the chart's group (a line, an axis, a
\* label).
GroupClick ==
    /\ TrendDrawn
    /\ events < MaxEvents
    /\ ClearSelection
    /\ events' = events + 1
    /\ UNCHANGED <<csv, fetches, pc, task, failed, loadResult, data, trendTable,
                   container, sel, pending, visibilityState, hiddenDots, fn, out>>

\* A click on the chart where nothing is painted.  The click handler is
\* registered on the group appended to the svg element, not on the svg
\* element; the group has no painted background, so the target of this
\* click is the svg element and no handler of the chart runs.
BackgroundClick ==
    /\ TrendDrawn
    /\ events < MaxEvents
    /\ events' = events + 1
    /\ UNCHANGED <<csv, fetches, pc, task, failed, loadResult, data, trendTable,
                   container, sel, pending, trendUI, fn, out>>

Without(s, i) == SubSeq(s, 1, i - 1) \o SubSeq(s, i + 1, Len(s))

\* The chart div of a settled embed shows its chart.
Drawn(children) ==
    [i \in 1..Len(children) |->
        IF children[i].tag = "chartDiv" THEN Element("chart") ELSE children[i]]

\* A vegaEmbed promise of chart c settles.  Fulfilled: the chart is in the
\* div it was started on and the .then callback appends the statistics
\* panel of the data it was started with.  Rejected: nothing handles it.
EmbedSettles(c, i, ok) ==
    /\ i \in 1..Len(pending[c])
    /\ ok \/ MayFail
    /\ pending' = [pending EXCEPT ![c] = Without(pending[c], i)]
    /\ container' = [container EXCEPT ![c] =
          IF ok
          THEN Append(IF pending[c][i].attached THEN Drawn(container[c])
                      ELSE container[c],
                      Stats(c, pending[c][i].pd))
          ELSE container[c]]
    /\ failed' = IF ok THEN failed ELSE failed \cup {"embed:" \o c}
    /\ UNCHANGED <<csv, fetches, pc, task, loadResult, data, trendTable, sel, events,
                   fn, out, trendUI>>

-----------------------------------------------------------------------------
(* The chart functions applied to a table                                   *)

\* The means a statistics panel prints, one per group and field.
Means(groups, field) ==
    {mean([j \in 1..Len(groups[i].members) |-> groups[i].members[j][field]]) :
        i \in 1..Len(groups)}

\* updateChart of the usage chart declared at line 414: the chart is
\* embedded for every selection and the panel is appended only when
\* processedData is not empty.
UsageViewGen1(s, rows) ==
    LET pd == UsageProcessDataGen1(s, rows) IN
    View("", Len(pd), pd, Len(pd) > 0,
         IF Len(pd) > 0
         THEN Means(rollup(pd, <<"charger_type">>), "usage")
         ELSE {},
         <<>>)

\* updateChart of the usage chart declared at line 1951.
UsageView(s, rows) ==
    LET pd == UsageProcessData(s, rows) IN
    IF Len(pd) = 0 THEN View("nodata", 0, <<>>, FALSE, {}, <<>>)
    ELSE View("", Len(pd), pd, TRUE,
              Means(UsageStats(pd).groups, "usage"), <<>>)

\* updateChart of the cost-rating chart.
CostRatingView(s, rows) ==
    LET pd == CostRatingProcessData(s, rows) IN
    IF Len(pd) = 0 THEN View("nodata", 0, <<>>, FALSE, {}, <<>>)
    ELSE View("", Len(pd), pd, TRUE,
              Means(CostRatingStats(pd).groups, "cost")
                \cup Means(CostRatingStats(pd).groups, "rating"),
              <<>>)

\* updateChart of the boxplot: no test of processedData's length.
BoxplotView(f, rows) ==
    LET pd == BoxplotProcessData(f, rows) IN
    View("", Len(pd), pd, TRUE,
         Means(BoxplotStats(pd).groups, "value"), <<>>)

\* createOperatorAnalysis.
OperatorView(rows) ==
    LET pd == OperatorProcessData(rows) IN
    View("", Len(pd), pd, TRUE,
         Means(OperatorStats(pd).groups, "rating")
           \cup Means(OperatorStats(pd).groups, "usage")
           \cup Means(OperatorStats(pd).groups, "capacity"),
         <<>>)

\* The trend chart's drawing height: 450 - margin.top - margin.bottom.
ChartHeight == 450 - 40 - 100

\* d3.scaleLinear().domain(domain).range([height, 0]) applied to v: NaN when
\* an end of the domain is no number, the middle of the range when the
\* domain is a single point.
ScaleY(domain, v) ==
    IF isNaN(domain[1]) \/ isNaN(domain[2]) THEN NaN
    ELSE IF domain[1] = domain[2] THEN ChartHeight \div 2
    ELSE ChartHeight - ((v - domain[1]) * ChartHeight) \div (domain[2] - domain[1])

\* The y values of the five annotations.
annotations == {15, 20, 25, 30, 35}

\* updateChart of the trend chart declared at line 145: the y scale and the
\* annotation lines are drawn for every selection.
TrendViewGen1(selectedAvailability, rows) ==
    LET filteredData == TrendFilterGen1(selectedAvailability, rows)
        points == trendData(filteredData)
        domain == TrendYDomainGen1(points)
    IN  View("", Len(filteredData), points, FALSE,
             {domain[1], domain[2]} \cup {ScaleY(domain, a) : a \in annotations},
             <<>>)

\* createMap at line 51 / line 1466: one circle marker per record.
MapViewGen1(rows) ==
    View("", Len(rows), rows, FALSE, {}, [i \in 1..Len(rows) |-> MarkerColorGen1(rows[i])])

MapView(rows) ==
    View("", Len(rows), rows, FALSE, {}, [i \in 1..Len(rows) |-> MarkerColor(rows[i])])

\* updateVisualization of the older script's createMap: one circle per
\* record of filterData, filled with typeColors of its type.
MapViewOld(s, rows) ==
    LET filteredData == filterData(s, rows) IN
    View("", Len(filteredData), filteredData, FALSE, {},
         [i \in 1..Len(filteredData) |->
             typeColors(Get(filteredData[i], TypeCol))])

\* `${count}`: the decimal digits of the number.
RECURSIVE Digits(_)
Digits(n) == IF n < 10 THEN <<n>> ELSE Append(Digits(n \div 10), n % 10)

\* (variant: the steps taken at 50 and 100 instead of above them)
iconCreateFunctionFromThreshold(count) ==
    LET size == IF count >= 100 THEN 60 ELSE IF count >= 50 THEN 50 ELSE 40
    IN  [html |-> [width |-> size, height |-> size, lineHeight |-> size,
                   text |-> Digits(count)],
         className |-> "cluster-icon",
         iconSize |-> <<size, size>>]

\* iconCreateFunction of the marker cluster group, given the cluster's
\* getChildCount().
iconCreateFunction(count) ==
    LET size == IF count > 100 THEN 60 ELSE IF count > 50 THEN 50 ELSE 40
    IN  [html |-> [width |-> size, height |-> size, lineHeight |-> size,
                   text |-> Digits(count)],
         className |-> "cluster-icon",
         iconSize |-> <<size, size>>]

FnInit ==
    /\ \E t \in Tables :
          /\ csv = [header |-> AllColumns, rows |-> t]
          /\ loadResult = [kind |-> "ok", missing |-> <<>>, rows |-> t]
          /\ data = t
          /\ trendTable = t
    /\ pc = "done"
    /\ task = [f \in AsyncFns |-> "done"]
    /\ failed = {}
    /\ container = [c \in Containers |-> <<>>]
    /\ sel = [c \in FilterCharts |->
                 IF c = "cost-rating-viz"
                 THEN [type |-> "all", availability |-> "all"]
                 ELSE [type |-> "all", range |-> "all"]]
    /\ pending = [c \in EmbedCharts |-> <<>>]
    /\ events = 0
    /\ fetches = <<>>
    /\ visibilityState = [t \in Range(types) |-> TRUE]
    /\ selected = {}
    /\ hiddenDots = {}
    /\ highlight = [lines |-> {}, dots |-> {}]
    /\ tooltip = 0
    /\ fn = [name |-> "none"]
    /\ out = NoView

\* One call of function `name` with argument `arg` on the table.
Call(name, arg, view) ==
    /\ fn.name = "none"
    /\ fn' = [name |-> name, arg |-> arg]
    /\ out' = view
    /\ UNCHANGED <<csv, fetches, pc, task, failed, loadResult, data, trendTable,
                   container, sel, pending, events, trendUI>>

CallUsageGen1 == \E s \in UsageOptionsGen1 : Call("usageGen1", s, UsageViewGen1(s, data))
CallUsage == \E s \in UsageOptions : Call("usage", s, UsageView(s, data))
CallCostRating == \E s \in CostRatingOptions : Call("costRating", s, CostRatingView(s, data))
CallBoxplot == \E f \in features : Call("boxplot", f, BoxplotView(f, data))
CallOperator == Call("operator", "", OperatorView(data))
CallTrendGen1 == \E a \in TrendOptionsGen1 : Call("trendGen1", a, TrendViewGen1(a, data))
CallMapGen1 == Call("mapGen1", "", MapViewGen1(data))
CallMap == Call("map", "", MapView(data))
CallMapOld == \E s \in MapOptionsOld : Call("mapOld", s, MapViewOld(s, data))
CallIconCreate == \E count \in 1..MaxChildCount : Call("clusterIcon", count, iconCreateFunction(count))

NextFn ==
    \/ CallUsageGen1
    \/ CallUsage
    \/ CallCostRating
    \/ CallBoxplot
    \/ CallOperator
    \/ CallTrendGen1
    \/ CallMapGen1
    \/ CallMap
    \/ CallMapOld
    \/ CallIconCreate

SpecFn == FnInit /\ [][NextFn]_vars

-----------------------------------------------------------------------------
(* The trend chart declared at line 145, driven by its selector            *)

\* (variant: the previous chart is left in the container)
TrendUpdateChartGen1Appending(children) ==
    Append(children, Element("chart"))

\* updateChart on the container: every svg below #trend-viz is removed and
\* one svg is appended.
TrendUpdateChartGen1(children) ==
    Append(SelectSeq(children, LAMBDA e : e.tag # "chart"), Element("chart"))

\* loadTrendChart after its await: the filter container with the
\* availability selector is appended, then updateChart('all').
CreateTrendGen1 ==
    /\ fn.name = "none"
    /\ fn' = [name |-> "trendGen1", arg |-> "all"]
    /\ out' = TrendViewGen1("all", data)
    /\ container' = [container EXCEPT !["trend-viz"] =
          TrendUpdateChartGen1(Append(container["trend-viz"], Element("filters")))]
    /\ UNCHANGED <<csv, fetches, pc, task, failed, loadResult, data, trendTable,
                   sel, pending, events, trendUI>>

\* 'change' on the availability selector: updateChart(event.target.value).
AvailabilityChange(a) ==
    /\ fn.name = "trendGen1"
    /\ "filters" \in Tags(container["trend-viz"])
    /\ events < MaxEvents
    /\ a \in TrendOptionsGen1 \ {fn.arg}
    /\ fn' = [fn EXCEPT !.arg = a]
    /\ out' = TrendViewGen1(a, data)
    /\ container' = [container EXCEPT !["trend-viz"] =
          TrendUpdateChartGen1(container["trend-viz"])]
    /\ events' = events + 1
    /\ UNCHANGED <<csv, fetches, pc, task, failed, loadResult, data, trendTable,
                   sel, pending, trendUI>>

NextTrendGen1 ==
    \/ CreateTrendGen1
    \/ \E a \in TrendOptionsGen1 : AvailabilityChange(a)

SpecTrendGen1 == FnInit /\ [][NextTrendGen1]_vars

-----------------------------------------------------------------------------
(* The page: specification *)

Next ==
    \/ PageLoad
    \/ LoadDataSettles
    \/ CallCreateMap
    \/ CallLoadTrendChart
    \/ TrendLoadSettles
    \/ CallCreateHeatmap
    \/ HeatmapFetchSettles
    \/ HeatmapEmbedSettles
    \/ InitializeRest
    \/ \E c \in FilterCharts : \E t \in Options(c) : SelectorChange(c, t)
    \/ \E c \in EmbedCharts, i \in 1..(MaxEvents + 1), ok \in BOOLEAN :
          EmbedSettles(c, i, ok)
    \/ \E type \in Range(types) : LegendClick(type)
    \/ \E i \in 1..(Len(types) * Cardinality(PagePool)) : DotClick(i)
    \/ GroupClick
    \/ BackgroundClick

Spec == Init /\ [][Next]_vars

-----------------------------------------------------------------------------
(* The trend chart and its pointer events                                  *)

\* The page up to the drawing of the trend chart, and then every pointer
\* event of the chart: clicks and hovers on points, lines, legend items and
\* the background.  The hover handlers write only `highlight' and
\* `tooltip', which nothing outside the trend chart reads.
NextTrendUI ==
    \/ PageLoad
    \/ LoadDataSettles
    \/ CallCreateMap
    \/ CallLoadTrendChart
    \/ TrendLoadSettles
    \/ \E type \in Range(types) : LegendClick(type)
    \/ \E i \in 1..(Len(types) * Cardinality(PagePool)) : DotClick(i)
    \/ GroupClick
    \/ BackgroundClick
    \/ \E i \in 1..(Len(types) * Cardinality(PagePool)) : DotMouseOver(i)
    \/ \E i \in 1..(Len(types) * Cardinality(PagePool)) : DotMouseOut(i)
    \/ \E type \in Range(types) : LineMouseOver(type)
    \/ \E type \in Range(types) : LineMouseOut(type)

SpecTrendUI == Init /\ [][NextTrendUI]_vars

-----------------------------------------------------------------------------
(* Properties of the page (Spec)                                            *)

\* Nothing is in flight: no fetch, no embed.
Settled ==
    /\ \A f \in AsyncFns : task[f] \in {"idle", "done"}
    /\ \A c \in EmbedCharts : pending[c] = <<>>

Shows(c, tag) == tag \in Tags(container[c])

\* C1: after a page load in which the CSV and the heatmap spec are fetched
\* and no chart-library call fails, all six containers hold a rendered
\* chart.  Stated for the state in which the load has run to its end with
\* nothing failed and nothing in flight, and with selections that match at
\* least one record.
C1_AllSixRendered ==
    ( /\ pc = "done"
      /\ Settled
      /\ failed = {}
      /\ \A c \in FilterCharts : Len(ProcessData(c, sel[c], data)) > 0 )
    => \A c \in Containers : Shows(c, "chart")

\* C2: a failure in one chart's render pass never keeps a sibling chart
\* whose own inputs are available from rendering.  Stated for the heatmap,
\* whose only inputs are heatmap_spec.json and the chart library: once the
\* load has come to rest and neither has failed, its chart is shown.
C2_SiblingStillRendered ==
    ( /\ pc \in {"done", "caught"}
      /\ Settled
      /\ failed \cap {"heatmap_spec", "lib:heatmap-viz"} = {} )
    => Shows("heatmap-viz", "chart")

\* The containers of the charts that are given the table initialize loaded.
NeedsInitializeCsv == {"map-viz", "type-usage-viz", "cost-rating-viz", "boxplot-viz"}

\* C3: when a fetch fails or a required column is missing, the container of
\* every chart that needed the resource holds an inline error message.
C3_ErrorShownWhereNeeded ==
    ( pc \in {"done", "caught"} /\ Settled )
    => /\ "csv" \in failed => \A c \in NeedsInitializeCsv : Shows(c, "error")
       /\ "csv:trend" \in failed => Shows("trend-viz", "error")
       /\ "heatmap_spec" \in failed => Shows("heatmap-viz", "error")

\* C4: loadData fails with 'Missing required fields' iff the header lacks
\* one of the three required columns, naming exactly the missing ones, and
\* fails for no other missing column.  Stated for a fetch that succeeded.
C4_MissingFieldsIffHeaderLacks ==
    loadResult.kind \notin {"none", "fetch rejected", "HTTP error"}
    => LET lacking == Range(requiredFields) \ csv.header IN
       /\ (loadResult.kind = "Missing required fields") <=> (lacking # {})
       /\ loadResult.kind = "Missing required fields"
             => Range(loadResult.missing) = lacking
       /\ lacking = {} => loadResult.kind = "ok"

Started(f) == task[f] # "idle"
Finished(f) == task[f] = "done"
RestStarted == \E c \in EmbedCharts : container[c] # <<>>

\* C5: initialize runs its steps one after another: the table is loaded
\* before any chart is created, the trend chart starts only when the map is
\* finished, the heatmap only when the trend chart has rendered or reported
\* its error, and the remaining charts only when the heatmap has.
C5_StepsInOrder ==
    /\ Started("createMap") => Finished("loadData") /\ loadResult.kind = "ok"
    /\ Started("loadTrendChart") =>
          Finished("createMap") /\ container["map-viz"] # <<>>
    /\ Started("createHeatmap") =>
          Finished("loadTrendChart") /\ container["trend-viz"] # <<>>
    /\ RestStarted =>
          Finished("createHeatmap") /\ container["heatmap-viz"] # <<>>

\* The remaining charts have been created after a heatmap step that ended
\* in its error message.
C5_Witness == RestStarted /\ Shows("heatmap-viz", "error")

\* C6: no operation of the page modifies the parsed table: once loadData
\* has returned it, every step (a chart's first render, a selector change,
\* a settled embed, a legend, point or chart click) leaves the record array
\* as it is, and so does every step for the table the trend chart loaded.
C6_TableNotModified ==
    [][ /\ Finished("loadData") => data' = data
        /\ Finished("loadTrendChart") => trendTable' = trendTable ]_vars

\* A selector has been changed and a point of the trend chart selected on
\* a page that holds records.
C6_Witness ==
    /\ Len(data) > 0
    /\ \E c \in FilterCharts : sel[c].type # "all"
    /\ selected # {}

-----------------------------------------------------------------------------
(* Properties of the chart functions (SpecFn)                               *)

\* The selection that leaves every dimension but k on 'all'.
Single(s, k) == [j \in DOMAIN s |-> IF j = k THEN s[j] ELSE "all"]

\* C7: in the usage chart's processData the result for a combination of
\* selector values is the intersection of the results of each dimension
\* alone; applying the dimensions one after another gives that result in
\* whichever order two of them are taken; filtering the result again with
\* the same selection gives the result again.
C7_IntersectionOfDimensions ==
    fn.name = "usageGen1" =>
        LET s == fn.arg
            dims == <<"type", "power", "cost", "renewable", "range">>
            all == UsageProcessDataGen1([j \in DOMAIN s |-> "all"], data)
            alone == [k \in DOMAIN s |->
                         Range(UsageProcessDataGen1(Single(s, k), data))]
            Filter(k, ms) == SelectSeq(ms, LAMBDA m : UsageKeepGen1(Single(s, k), m))
        IN  /\ Range(dims) = DOMAIN s
            /\ out.plotted =
                  SelectSeq(all, LAMBDA m : \A k \in DOMAIN s : m \in alone[k])
            /\ \A i, j \in 1..Len(dims) :
                  i < j => Filter(dims[i], Filter(dims[j], all))
                             = Filter(dims[j], Filter(dims[i], all))
            /\ out.plotted =
                  Filter("type", Filter("power", Filter("cost",
                      Filter("renewable", Filter("range", all)))))
            /\ out.plotted =
                  Filter("range", Filter("renewable", Filter("cost",
                      Filter("power", Filter("type", all)))))
            /\ SelectSeq(out.plotted, LAMBDA m : UsageKeepGen1(s, m)) = out.plotted

\* Two dimensions are selected, a record passes and a record is dropped.
C7_Witness ==
    /\ fn.name = "usageGen1"
    /\ fn.arg.type # "all" /\ fn.arg.cost # "all"
    /\ Len(out.plotted) > 0
    /\ Len(out.plotted) < Len(data)

\* The functions with a filter whose result a chart is drawn from.
FilteredCharts == {"usageGen1", "usage", "costRating", "boxplot", "operator", "trendGen1"}

\* C8: for a selection whose filtered record set is empty no chart shows
\* NaN or undefined: no statistic and no scale is computed from the empty
\* set and written into the page.
C8_NothingFromEmptySet ==
    (fn.name \in FilteredCharts /\ out.filtered = 0) => NaN \notin out.numbers

DefaultColor == "#999"

\* C9: every station drawn on the map gets a defined colour: the colour of
\* its charger type for L1, L2 and DC, the default colour for any other or
\* missing type.
C9_DefinedColour ==
    fn.name \in {"mapGen1", "map", "mapOld"} =>
        \A i \in 1..Len(out.colors) :
            LET type == Get(out.plotted[i], TypeCol) IN
            /\ out.colors[i] # Undefined
            /\ type \in Range(types) =>
                  /\ out.colors[i] # DefaultColor
                  /\ \A j \in 1..Len(out.colors) :
                        Get(out.plotted[j], TypeCol) = type
                            => out.colors[j] = out.colors[i]
            /\ type \notin Range(types) => out.colors[i] = DefaultColor

\* The view function `name` draws for argument arg from table rows.
ViewOf(name, arg, rows) ==
    CASE name = "usageGen1" -> UsageViewGen1(arg, rows)
      [] name = "usage" -> UsageView(arg, rows)
      [] name = "costRating" -> CostRatingView(arg, rows)
      [] name = "boxplot" -> BoxplotView(arg, rows)
      [] name = "operator" -> OperatorView(rows)

\* The columns whose values function `name` aggregates.
AggregatedFields(name, arg) ==
    CASE name \in {"usageGen1", "usage"} -> {UsageCol}
      [] name = "costRating" -> {CostCol, RatingCol}
      [] name = "boxplot" -> {FeatureField(arg)}
      [] name = "operator" -> {RatingCol, UsageCol, CapacityCol}

AggregatingCharts == {"usageGen1", "usage", "costRating", "boxplot", "operator"}

\* Record d is among the records the function aggregates.
Contributes(d) == ViewOf(fn.name, fn.arg, <<d>>).filtered = 1

\* The cell spells a number and nothing else.
Numeric(cell) == cell \in DOMAIN Numeral

-----------------------------------------------------------------------------
(* Properties of the selector changes (Spec)                                *)

\* The selection of chart c changes in this step.
Changed(c) == sel'[c] # sel[c]

\* C11 (as stated): a selector change is handled synchronously: when the
\* change handler returns, the container shows the chart and the statistics
\* of the current selection (or the message that no record matches) and no
\* rendering work of the chart is left pending.
C11_HandledSynchronously ==
    [][ \A c \in FilterCharts :
          Changed(c) =>
             /\ pending'[c] = <<>>
             /\ \/ Tags(container'[c]) = {"nodata"}
                \/ {"chart", "stats"} \subseteq Tags(container'[c]) ]_vars

\* C11 (amended): when the change handler returns, the records are filtered
\* and, for a selection that matches records, the container holds the
\* selectors and an empty chart div, with one more embed pending that
\* carries the records of the current selection; the chart and the
\* statistics are not in the container yet.  For a selection that matches
\* no record the container holds the message and no embed is started.
C11_FilteredThenPending ==
    [][ \A c \in FilterCharts :
          Changed(c) =>
             LET pd == ProcessData(c, sel'[c], data)
                 n == Len(pending'[c])
             IN  IF Len(pd) > 0
                 THEN /\ container'[c] = <<Element("filters"), Element("chartDiv")>>
                      /\ n = Len(pending[c]) + 1
                      /\ pending'[c][n] = [pd |-> pd, attached |-> TRUE]
                 ELSE /\ container'[c] = <<Element("nodata")>>
                      /\ n = Len(pending[c]) ]_vars

\* A selector has been changed to a selection that matches records: the
\* container holds the selectors and the chart div, and the embed of the
\* new selection is pending.
C11_Witness ==
    \E c \in FilterCharts :
        /\ sel[c].type # "all"
        /\ container[c] = <<Element("filters"), Element("chartDiv")>>
        /\ pending[c] # <<>>
        /\ pending[c][Len(pending[c])].pd = ProcessData(c, sel[c], data)

-----------------------------------------------------------------------------
(* Properties of the fetches (Spec)                                        *)

\* The function that fills each container.
Creator(c) ==
    CASE c = "map-viz" -> "createMap"
      [] c = "trend-viz" -> "loadTrendChart"
      [] c = "heatmap-viz" -> "createHeatmap"
      [] c = "cost-rating-viz" -> "createCostRatingChart"
      [] c = "type-usage-viz" -> "createTypeUsageChart"
      [] OTHER -> "createBoxplotComparison"

FetchesBy(f, url) ==
    Cardinality({i \in 1..Len(fetches) : fetches[i] = [by |-> f, url |-> url]})

FetchesOf(url) ==
    Cardinality({i \in 1..Len(fetches) : fetches[i].url = url})

-----------------------------------------------------------------------------
(* Properties of the trend chart's interactions (Spec)                     *)

\* Whether point i is drawn (opacity above 0).
DotShown(i) == i \notin hiddenDots

\* C13: all three charger types are shown initially, and a click on a legend
\* item toggles the visibility of exactly that type: the state of the type
\* is negated, every point of the type is drawn exactly when the type is now
\* shown, and the state and the points of the other two types are as they
\* were (so a second click restores the state before the first).
C13_LegendTogglesExactlyThatType ==
    /\ \A t \in Range(types) : visibilityState[t]
    /\ hiddenDots = {}
    /\ [][ \A type \in Range(types) : LegendClick(type) =>
             /\ visibilityState'[type] = ~visibilityState[type]
             /\ \A t \in Range(types) \ {type} :
                    visibilityState'[t] = visibilityState[t]
             /\ \A i \in DotsOf(type) : DotShown(i)' = visibilityState'[type]
             /\ \A i \in (1..Len(Dots)) \ DotsOf(type) :
                    DotShown(i)' = DotShown(i) ]_vars

-----------------------------------------------------------------------------
(* Properties of the cost-vs-rating chart (SpecFn)                         *)

\* Row d has a valid cost (> 0) and a valid rating (>= 0), its charger type
\* is the selected one and its 24-hour flag matches the selected
\* availability.
CostRatingMatches(s, d) ==
    /\ Numeric(Get(d, CostCol)) /\ Numeral[Get(d, CostCol)] > 0
    /\ Numeric(Get(d, RatingCol)) /\ Numeral[Get(d, RatingCol)] >= 0
    /\ s.type = "all" \/ Get(d, TypeCol) = s.type
    /\ CASE s.availability = "24h" -> Get(d, H24Col) = "True"
         [] s.availability = "limited" -> Get(d, H24Col) # "True"
         [] OTHER -> TRUE

\* C14: for every selection (type, availability) of the cost-vs-rating
\* chart the plotted records are exactly the records with a valid cost
\* (> 0) and a valid rating (>= 0) whose charger type equals the selected
\* type (any type for 'all') and whose 24-hour flag matches the selected
\* availability ('24h': 'True'; 'limited': not 'True'; 'all': any).
C14_PlottedAreTheMatching ==
    fn.name = "costRating" =>
        LET matching == SelectSeq(data, LAMBDA d : CostRatingMatches(fn.arg, d))
        IN  /\ out.filtered = Len(matching)
            /\ out.plotted = [i \in 1..Len(matching) |-> CostRatingRecord(matching[i])]
            /\ \A i \in 1..Len(matching) :
                  /\ out.plotted[i].cost = Numeral[Get(matching[i], CostCol)]
                  /\ out.plotted[i].rating = Numeral[Get(matching[i], RatingCol)]

\* A type and 'limited' are selected; a record is plotted and one is not.
C14_Witness ==
    /\ fn.name = "costRating"
    /\ fn.arg.type # "all" /\ fn.arg.availability = "limited"
    /\ Len(out.plotted) > 0
    /\ Len(out.plotted) < Len(data)

\* C15: at most one point of the trend chart is selected at any time, after
\* any sequence of point clicks, background clicks, hovers and legend
\* clicks: a click on an unselected point makes it the only selected point
\* and the tooltip shows its year and count, a click on the selected point
\* deselects it and hides the tooltip, and a click on the chart background
\* (on an element of the chart's group or beside them) clears the selection.
C15_AtMostOneSelected ==
    /\ [](Cardinality(selected) <= 1)
    /\ [][ /\ \A i \in 1..Len(Dots) : DotClick(i) =>
                 IF i \in selected
                 THEN selected' = {} /\ tooltip' = 0
                 ELSE selected' = {i} /\ tooltip' = i
           /\ (GroupClick \/ BackgroundClick) => selected' = {} ]_vars

-----------------------------------------------------------------------------
(* Properties of the statistics panels (Spec)                              *)

\* The statistics panels among the children of container c.
Panels(c) == {i \in 1..Len(container[c]) : container[c][i].tag = "stats"}

\* C16: under every interleaving of selector changes and embed completions
\* the container of the usage, cost-rating and boxplot charts holds at most
\* one statistics panel, and that panel is computed from the current
\* selector values, never from a superseded selection.
C16_OnePanelOfCurrentSelection ==
    /\ \A c \in EmbedCharts : Cardinality(Panels(c)) <= 1
    /\ \A c \in FilterCharts : \A i \in Panels(c) :
          container[c][i] = Stats(c, ProcessData(c, sel[c], data))

\* C17: after every selector change of a chart with selectors, a change to
\* a selection that matches no record included, the selectors are still in
\* the chart's container, so that the selection can be changed again.
C17_SelectorsStillPresent ==
    [][ \A c \in FilterCharts : Changed(c) =>
            "filters" \in Tags(container'[c]) ]_vars

-----------------------------------------------------------------------------
(* Properties of the trend data (SpecFn)                                   *)

\* The installation year of row d, 0 when the cell holds no number.
YearOf(d) ==
    IF Numeric(Get(d, YearCol)) THEN Numeral[Get(d, YearCol)] \div 100 ELSE 0

\* C18: for every availability selection the trend data holds exactly one
\* point per (year, type), the year ranging over the distinct installation
\* years from 2010 to 2024 among the filtered records and the type over L1,
\* L2 and DC; the point's count is the number of filtered records of that
\* year and type, 0 when there is none.
C18_OnePointPerYearAndType ==
    fn.name = "trendGen1" =>
        LET filteredData == TrendFilterGen1(fn.arg, data)
            Y == {YearOf(filteredData[i]) : i \in 1..Len(filteredData)}
                    \cap (2010..2024)
            points == out.plotted
        IN  /\ Len(points) = 3 * Cardinality(Y)
            /\ \A y \in Y : \A t \in Range(types) :
                  \E k \in 1..Len(points) :
                      /\ points[k].year = y /\ points[k].type = t
                      /\ \A j \in 1..Len(points) :
                            (points[j].year = y /\ points[j].type = t) => j = k
                      /\ points[k].count =
                            Cardinality({i \in 1..Len(filteredData) :
                                /\ YearOf(filteredData[i]) = y
                                /\ Get(filteredData[i], TypeCol) = t})

\* An availability is selected that drops a record, and the data holds a
\* point with records and a point with none.
C18_Witness ==
    /\ fn.name = "trendGen1" /\ fn.arg # "all"
    /\ out.filtered < Len(data)
    /\ \E k \in 1..Len(out.plotted) : out.plotted[k].count > 0
    /\ \E k \in 1..Len(out.plotted) : out.plotted[k].count = 0

\* Row d is counted by the trend chart under the availability selection a:
\* it is among the records of a point of the trend data.
CountedUnder(a, d) ==
    \E k \in 1..Len(trendData(TrendFilterGen1(a, <<d>>))) :
        trendData(TrendFilterGen1(a, <<d>>))[k].count > 0

\* C19: every record the trend chart counts under 'All Hours' is counted
\* under exactly one of '24/7 Only' and 'Limited Hours', and under 'Limited
\* Hours' exactly when its flag is not 'True', as in the cost-vs-rating
\* chart and the map popup.
C19_AllIsSplitInTwo ==
    fn.name = "trendGen1" =>
        \A i \in 1..Len(data) :
            CountedUnder("all", data[i]) =>
                /\ CountedUnder("24/7", data[i]) # CountedUnder("limited", data[i])
                /\ CountedUnder("limited", data[i]) = (Get(data[i], H24Col) # "True")

-----------------------------------------------------------------------------
(* Properties of the usage chart's cost selector (SpecFn)                  *)

\* Row d has a valid usage and a cost that is a number within the range the
\* cost selection names.
CostRangeMatches(cost, d) ==
    /\ Numeric(Get(d, UsageCol)) /\ Numeral[Get(d, UsageCol)] >= 0
    /\ Numeric(Get(d, CostCol))
    /\ CASE cost = "low" -> Numeral[Get(d, CostCol)] < 15
         [] cost = "medium" -> /\ Numeral[Get(d, CostCol)] >= 15
                               /\ Numeral[Get(d, CostCol)] =< 30
         [] cost = "high" -> Numeral[Get(d, CostCol)] > 30

\* C20: in the usage chart, with the other selectors on 'all', the cost
\* selection returns exactly the records with valid usage whose cost is
\* below 0.15 ('low'), from 0.15 to 0.30 inclusive ('medium') or above 0.30
\* ('high'); a record whose cost is not a number is returned for none of
\* the three.
C20_CostRangeReturnsItsRecords ==
    ( /\ fn.name = "usageGen1"
      /\ fn.arg.cost # "all"
      /\ fn.arg = Single(fn.arg, "cost") )
    => LET matching == SelectSeq(data, LAMBDA d : CostRangeMatches(fn.arg.cost, d))
       IN  out.plotted = [i \in 1..Len(matching) |-> UsageRecordGen1(matching[i])]

-----------------------------------------------------------------------------
(* Properties of the usage chart's range selector (SpecFn)                 *)

\* Row d has a valid usage that is not negative.
ValidUsage(d) == Numeric(Get(d, UsageCol)) /\ Numeral[Get(d, UsageCol)] >= 0

UsageOf(d) == Numeral[Get(d, UsageCol)]

\* The usage-range options a user can select besides 'all', in the two
\* declarations of the usage chart.
RangeChoices(name) ==
    IF name = "usageGen1" THEN {s.range : s \in UsageOptionsGen1} \ {"all"}
    ELSE {s.range : s \in UsageOptions} \ {"all"}

\* Row d is returned by the usage chart `name` when the range selector is
\* on o and every other selector as in the call made.
ReturnedForRange(name, o, d) ==
    IF name = "usageGen1"
    THEN Len(UsageProcessDataGen1([fn.arg EXCEPT !.range = o], <<d>>)) = 1
    ELSE Len(UsageProcessData([fn.arg EXCEPT !.range = o], <<d>>)) = 1

\* C21 as stated: the usage chart's range options 'low', 'medium' and
\* 'high' partition the records with a valid non-negative usage: each such
\* record is returned by exactly one option, and 'all' returns their union.
C21_RangeOptionsPartition ==
    ( fn.name \in {"usageGen1", "usage"} /\ fn.arg = Single(fn.arg, "range") )
    => \A i \in 1..Len(data) :
          /\ ReturnedForRange(fn.name, "all", data[i]) = ValidUsage(data[i])
          /\ ValidUsage(data[i]) =>
                Cardinality({o \in RangeChoices(fn.name) :
                                ReturnedForRange(fn.name, o, data[i])}) = 1

\* C21: in the usage chart declared at line 414 the options 'low'
\* (usage <= 10), 'medium' (10 < usage <= 20) and 'high' (usage > 20)
\* partition the records with a valid non-negative usage, and 'all' returns
\* their union.  The usage chart declared at line 1951, which the page
\* runs, has no 'low' option: 'medium' returns 5 < usage <= 15 and 'high'
\* usage > 15, the two are disjoint, and a record with a valid usage of at
\* most 5 is returned by 'all' alone.
C21_RangesOfEachDeclaration ==
    ( fn.name \in {"usageGen1", "usage"} /\ fn.arg = Single(fn.arg, "range") )
    => /\ out.filtered =
             Cardinality({i \in 1..Len(data) :
                 ReturnedForRange(fn.name, fn.arg.range, data[i])})
       /\ \A i \in 1..Len(data) :
          LET d == data[i]
              R(o) == ReturnedForRange(fn.name, o, d)
          IN  /\ R("all") = ValidUsage(d)
              /\ fn.name = "usageGen1" =>
                    /\ RangeChoices(fn.name) = {"low", "medium", "high"}
                    /\ R("low") = (ValidUsage(d) /\ UsageOf(d) =< 1000)
                    /\ R("medium") = (ValidUsage(d) /\ UsageOf(d) > 1000
                                                    /\ UsageOf(d) =< 2000)
                    /\ R("high") = (ValidUsage(d) /\ UsageOf(d) > 2000)
              /\ fn.name = "usage" =>
                    /\ RangeChoices(fn.name) = {"medium", "high"}
                    /\ R("medium") = (ValidUsage(d) /\ UsageOf(d) > 500
                                                    /\ UsageOf(d) =< 1500)
                    /\ R("high") = (ValidUsage(d) /\ UsageOf(d) > 1500)

\* The chart the page runs is called with 'medium' on a table that holds a
\* record it plots and a record of valid usage that no range option returns.
C21_Witness ==
    /\ fn.name = "usage"
    /\ fn.arg = [type |-> "all", range |-> "medium"]
    /\ Len(out.plotted) > 0
    /\ \E i \in 1..Len(data) :
          /\ ValidUsage(data[i])
          /\ \A o \in RangeChoices("usage") : ~ReturnedForRange("usage", o, data[i])

-----------------------------------------------------------------------------
(* Properties of the trend chart's container (SpecTrendGen1)               *)

\* How many children of the trend chart's container carry the tag.
TrendChildren(tag) ==
    Cardinality({i \in 1..Len(container["trend-viz"]) :
                    container["trend-viz"][i].tag = tag})

\* C22: after any sequence of availability selections the trend chart's
\* container holds exactly one chart (one svg) and exactly one availability
\* selector: each update removes the previous chart before it draws the new
\* one, and the selector is neither removed nor duplicated.  The chart is
\* the one of the current selection.
C22_OneChartOneSelector ==
    fn.name = "trendGen1" =>
        /\ TrendChildren("chart") = 1
        /\ TrendChildren("filters") = 1
        /\ Len(container["trend-viz"]) = 2
        /\ out = TrendViewGen1(fn.arg, data)

\* Two availability selections have been made.
C22_Witness ==
    /\ fn.name = "trendGen1"
    /\ events = 2
    /\ fn.arg = "limited"
    /\ TrendChildren("chart") = 1

-----------------------------------------------------------------------------
(* Properties of the map's cluster icons (SpecFn)                          *)

\* The number a sequence of decimal digits spells.
RECURSIVE Spelled(_)
Spelled(ds) ==
    IF Len(ds) = 0 THEN 0
    ELSE 10 * Spelled(SubSeq(ds, 1, Len(ds) - 1)) + ds[Len(ds)]

\* C23: the size of a cluster's icon is a step function of the number of
\* stations in the cluster: 40 px for at most 50, 50 px for 51 to 100 and
\* 60 px above 100; the icon is a square of that size and shows exactly
\* that number.
C23_IconSizeIsStepOfCount ==
    fn.name = "clusterIcon" =>
        LET count == fn.arg
            size == CASE count =< 50 -> 40
                      [] count >= 51 /\ count =< 100 -> 50
                      [] count > 100 -> 60
        IN  /\ out.iconSize = <<size, size>>
            /\ out.html.width = size /\ out.html.height = size
            /\ Spelled(out.html.text) = count
            /\ \A k \in 1..Len(out.html.text) : out.html.text[k] \in 0..9
            /\ Len(out.html.text) > 1 => out.html.text[1] # 0

\* The icon of a cluster of more than 100 stations.
C23_Witness ==
    /\ fn.name = "clusterIcon"
    /\ fn.arg = 101
    /\ out.iconSize = <<60, 60>>

-----------------------------------------------------------------------------
(* Properties of the boxplot's features (SpecFn)                           *)

\* C24: under the boxplot's 'maintenance' feature the score of a record is
\* 3 for 'Monthly', 2 for 'Quarterly', 1 for 'Annually' and 0 for any other
\* or missing value, so that no record is excluded from the chart and its
\* statistics; under the other three features exactly the records whose
\* field does not parse to a number are excluded.
C24_MaintenanceExcludesNothing ==
    fn.name = "boxplot" =>
        IF fn.arg = "maintenance"
        THEN /\ Len(out.plotted) = Len(data)
             /\ \A i \in 1..Len(data) :
                   out.plotted[i].value =
                       CASE Get(data[i], MaintCol) = "Monthly" -> 300
                         [] Get(data[i], MaintCol) = "Quarterly" -> 200
                         [] Get(data[i], MaintCol) = "Annually" -> 100
                         [] OTHER -> 0
        ELSE out.filtered =
                Cardinality({i \in 1..Len(data) :
                    ~isNaN(parseFloat(Get(data[i], FeatureField(fn.arg))))})

-----------------------------------------------------------------------------
(* Properties of the trend chart's hover handlers (SpecTrendUI)            *)

\* A hover event on the line or on a point of `type`.
HoverOn(type) ==
    \/ LineMouseOver(type)
    \/ LineMouseOut(type)
    \/ \E i \in DotsOf(type) : DotMouseOver(i) \/ DotMouseOut(i)

\* C25: while a charger type is hidden through the legend, a hover event on
\* its line or on one of its points changes nothing: no highlight is
\* applied, no tooltip is shown, no point is selected or drawn differently,
\* and the visibility state of every type is as before.
C25_HoverOnHiddenChangesNothing ==
    [][ \A type \in Range(types) :
            (~visibilityState[type] /\ HoverOn(type)) =>
                /\ highlight' = highlight
                /\ tooltip' = tooltip
                /\ selected' = selected
                /\ hiddenDots' = hiddenDots
                /\ visibilityState' = visibilityState ]_vars

\* A type has been hidden through the legend and a second pointer event has
\* been handled: nothing is highlighted and no tooltip is shown.
C25_Witness ==
    /\ TrendDrawn
    /\ events = 2
    /\ \E type \in Range(types) :
          /\ ~visibilityState[type]
          /\ DotsOf(type) # {}
          /\ DotsOf(type) \subseteq hiddenDots
    /\ highlight = [lines |-> {}, dots |-> {}]
    /\ tooltip = 0

-----------------------------------------------------------------------------
(* Properties of the statistics panels (SpecFn)                             *)

PanelCharts == {"usageGen1", "usage", "costRating", "boxplot", "operator"}

\* The groups listed by the panel that the call in `fn` appends, computed
\* from the processedData its chart was drawn from.
PanelGroups ==
    CASE fn.name \in {"usageGen1", "usage"} -> UsageStats(out.plotted).groups
      [] fn.name = "costRating" -> CostRatingStats(out.plotted).groups
      [] fn.name = "boxplot" -> BoxplotStats(out.plotted).groups
      [] fn.name = "operator" -> OperatorStats(out.plotted).groups
      [] OTHER -> <<>>

\* The counts the panel prints (v.length of each group).
PanelCounts == [i \in 1..Len(PanelGroups) |-> Len(PanelGroups[i].members)]

=============================================================================
